---- MODULE Spec2Model ----
(***************************************************************************)
(* Follow registry of react-animated-overlay (FollowerProvider in          *)
(* FollowerSystem.tsx): the identifier-keyed maps, the three subscriber    *)
(* maps, the 200ms grace timers and the set of active follower ids.        *)
(*                                                                         *)
(* JavaScript Maps are partial functions (DOMAIN = the keys the Map has),  *)
(* JavaScript Sets of callbacks are duplicate-free sequences in insertion  *)
(* order (the order forEach visits them).  All grace timers have the same  *)
(* delay, so they come due in the order they were created: pendingTimers   *)
(* is that queue and only its head can fire.                               *)
(***************************************************************************)
EXTENDS Integers, Sequences, FiniteSets, TLC

\* ---------------------------------------------------------------- bounds
NumIds == 2
NumElems == 2
NumContents == 1
NumPoints == 1
NumCbs == 2
MaxTimers == 3
MaxBusTimers == 1
MaxSubs == 2
MaxFacts == 2
MaxClosures == 2
NumUnits == 1
NumSpringValues == 2
MaxNow == 3
MaxMoveDelay == 3
MaxInitialDelay == 1
MaxTargetList == 3
NumClickPoints == 2
MaxClicks == 3

Ids == 1..NumIds
Elems == 1..NumElems            \* DOM elements handed to the ref callback
Contents == 1..NumContents      \* truthy React nodes
Points == 1..NumPoints          \* {x, y} objects
Cbs == 1..NumCbs                \* callback functions

\* ------------------------------------------------------ JavaScript values
Null == 0                       \* null
Undefined == -2                 \* undefined
EmptyNode == -1                 \* a falsy React node that is not null ("" / false / 0)
Truthy(v) == v > 0              \* elements, points and contents are truthy
OrNull(v) == IF Truthy(v) THEN v ELSE Null      \* v || null

\* ------------------------------------------------------- JavaScript Map
MapHas(m, k) == k \in DOMAIN m
MapSet(m, k, v) == [x \in (DOMAIN m) \cup {k} |-> IF x = k THEN v ELSE m[x]]
MapDelete(m, k) == [x \in (DOMAIN m) \ {k} |-> m[x]]
MapGetOr(m, k, d) == IF k \in DOMAIN m THEN m[k] ELSE d
MapGet(m, k) == MapGetOr(m, k, Undefined)
EmptyMap == [x \in {} |-> Undefined]

\* ------------------------------------------------------- JavaScript Set
SeqHas(s, c) == \E i \in 1..Len(s) : s[i] = c
SetAdd(s, c) == IF SeqHas(s, c) THEN s ELSE Append(s, c)
SetDelete(s, c) == SelectSeq(s, LAMBDA x : x # c)

\* no hook has thrown
NoError == [hook |-> "", message |-> ""]

\* ------------------------------------------------------- FollowerState
\* type FollowerState = { inertialMode?: boolean; springConfig?: {...} }
EmptyState == [inertialMode |-> "undefined", springConfig |-> Undefined]
SpringConfigs == {1}            \* 1 stands for the config object {}

\* springConfig objects { stiffness?, damping?, mass? } are numbered from 1:
\* the digits of c - 1 in base NumSpringValues + 1 are its three fields, digit
\* 0 for a field left out and digit d for the number d - 1 (so that the
\* number zero, which is falsy, is among the values); 1 is the object {}
ConfigBase == NumSpringValues + 1
AllConfigs == 1..(ConfigBase * ConfigBase * ConfigBase)
ConfigDigit(c, k) ==
    CASE k = "stiffness" -> (c - 1) % ConfigBase
      [] k = "damping" -> ((c - 1) \div ConfigBase) % ConfigBase
      [] OTHER -> ((c - 1) \div (ConfigBase * ConfigBase)) % ConfigBase
ConfigField(c, k) == IF ConfigDigit(c, k) = 0 THEN Undefined ELSE ConfigDigit(c, k) - 1

\* the argument of setFollowerState: the two updaters useFollowerTargetRef
\* passes, or a plain object
InertialUpdater(b) == [type |-> "inertial", inertialMode |-> b, springConfig |-> Undefined]
SpringUpdater(c) == [type |-> "spring", inertialMode |-> "undefined", springConfig |-> c]
ObjectArg(s) == [type |-> "object", inertialMode |-> s.inertialMode, springConfig |-> s.springConfig]
StateArgs == {InertialUpdater("true")}
             \cup {SpringUpdater(c) : c \in SpringConfigs}
             \cup {ObjectArg(EmptyState)}

ApplyStateArg(arg, currentState) ==
    CASE arg.type = "inertial" -> [currentState EXCEPT !.inertialMode = arg.inertialMode]
      [] arg.type = "spring" -> [currentState EXCEPT !.springConfig = arg.springConfig]
      [] OTHER -> [inertialMode |-> arg.inertialMode, springConfig |-> arg.springConfig]

VARIABLES
    followerStates,          \* Map<string, FollowerState>
    followTargets,           \* Map<string, FollowTarget>
    altTargets,              \* Map<string, AltTarget>
    followerContentRefs,     \* Map<string, FollowerContent>
    timeoutRefs,             \* Map<string, Timeout>: id -> timer handle
    targetSubscribers,       \* Map<string, Set<callback>>
    altTargetSubscribers,    \* Map<string, Set<callback>>
    followerStateSubscribers,\* Map<string, Set<callback>>
    activeFollowerIds,       \* React state: Set<string>
    pendingTimers,           \* scheduled, not yet fired or cleared: <<[handle, id]>>
    nextTimer,               \* next handle setTimeout returns
    mounted,                 \* the provider is mounted
    calls,                   \* callbacks run by the last step, in order
    raised,                  \* the last step ended by an exception
    unsubFns,                \* unsubscribe functions a caller holds
    units,                   \* the mounted <Follower> components, by id
    renderPending,           \* setActiveFollowerIds was called, the provider has not rendered yet
    app,                     \* the demo <AppContent>: its state and what it rendered
    hookError                \* the last hook rendered and the error it threw, "" if none

\* what the consumers of the registry hold
components == <<units, renderPending, hookError, app>>
consumers == <<unsubFns, units, renderPending, hookError, app>>

store == <<followerStates, followTargets, altTargets, followerContentRefs>>
subs == <<targetSubscribers, altTargetSubscribers, followerStateSubscribers>>
timers == <<timeoutRefs, pendingTimers, nextTimer>>
vars == <<followerStates, followTargets, altTargets, followerContentRefs,
          timeoutRefs, targetSubscribers, altTargetSubscribers,
          followerStateSubscribers, activeFollowerIds, pendingTimers,
          nextTimer, mounted, calls, raised, unsubFns, units,
          renderPending, hookError, app>>

\* <AppContent> before it is rendered
AppNotMounted == [mounted |-> FALSE]

Init ==
    /\ followerStates = EmptyMap
    /\ followTargets = EmptyMap
    /\ altTargets = EmptyMap
    /\ followerContentRefs = EmptyMap
    /\ timeoutRefs = EmptyMap
    /\ targetSubscribers = EmptyMap
    /\ altTargetSubscribers = EmptyMap
    /\ followerStateSubscribers = EmptyMap
    /\ activeFollowerIds = {}
    /\ pendingTimers = <<>>
    /\ nextTimer = 1
    /\ mounted = TRUE
    /\ calls = <<>>
    /\ raised = FALSE
    /\ unsubFns = EmptyMap
    /\ app = AppNotMounted
    /\ units = EmptyMap
    /\ renderPending = FALSE
    /\ hookError = NoError

\* ---------------------------------------------------------------- timers
\* clearTimeout(h): a handle that is not pending is ignored
ClearTimeout(q, h) == SelectSeq(q, LAMBDA t : t.handle # h)

\* ------------------------------------------------------------ publishing
Call(kind, id, cb, val) == [kind |-> kind, id |-> id, cb |-> cb, val |-> val]

\* subscribers.forEach(callback => callback(value)): the callbacks are
\* visited in insertion order; a callback in thr throws, which ends the
\* forEach and propagates to the caller (there is no try/catch).
RECURSIVE Deliver(_, _, _, _, _)
Deliver(kind, id, s, val, thr) ==
    IF s = <<>> THEN <<>>
    ELSE IF Head(s) \in thr THEN <<Call(kind, id, Head(s), val)>>
    ELSE <<Call(kind, id, Head(s), val)>> \o Deliver(kind, id, Tail(s), val, thr)

\* const subscribers = map.get(id); if (subscribers) subscribers.forEach(...)
Notify(kind, submap, id, val, thr) ==
    IF MapHas(submap, id) THEN Deliver(kind, id, submap[id], val, thr) ELSE <<>>

Threw(cs, thr) == cs # <<>> /\ cs[Len(cs)].cb \in thr

\* setActiveFollowerIds(updater): React drops updates of an unmounted component
SetActiveFollowerIds(newSet) == IF mounted THEN newSet ELSE activeFollowerIds

\* --------------------------------------------------------------- getters
getFollowerState(id) == MapGetOr(followerStates, id, EmptyState)
getFollowerContent(id) == MapGet(followerContentRefs, id)
getAltTarget(id) == MapGet(altTargets, id)

\* ------------------------------------------------------------ operations
setFollowerState(id, arg, thr) ==
    LET currentState == MapGetOr(followerStates, id, EmptyState)
        newState == ApplyStateArg(arg, currentState)
        cs == Notify("state", followerStateSubscribers, id, newState, thr)
    IN /\ followerStates' = MapSet(followerStates, id, newState)
       /\ calls' = cs
       /\ raised' = Threw(cs, thr)
       /\ UNCHANGED <<followTargets, altTargets, followerContentRefs, subs,
                      timers, activeFollowerIds, mounted>>

\* setFollowerContent whose removal branch forgets the active set
setFollowerContent_ActiveKept(id, content) ==
    /\ IF Truthy(content)
         THEN /\ followerContentRefs' = MapSet(followerContentRefs, id, content)
              /\ activeFollowerIds' = SetActiveFollowerIds(activeFollowerIds \cup {id})
         ELSE /\ followerContentRefs' = MapDelete(followerContentRefs, id)
              /\ activeFollowerIds' = activeFollowerIds
    /\ calls' = <<>>
    /\ raised' = FALSE
    /\ UNCHANGED <<followerStates, followTargets, altTargets, subs, timers, mounted>>

\* setFollowerContent that cancels a pending eviction of id
setFollowerContent_CancelsEviction(id, content) ==
    /\ IF Truthy(content)
         THEN /\ followerContentRefs' = MapSet(followerContentRefs, id, content)
              /\ activeFollowerIds' = SetActiveFollowerIds(activeFollowerIds \cup {id})
         ELSE /\ followerContentRefs' = MapDelete(followerContentRefs, id)
              /\ activeFollowerIds' = SetActiveFollowerIds(activeFollowerIds \ {id})
    /\ IF MapHas(timeoutRefs, id)
         THEN /\ pendingTimers' = ClearTimeout(pendingTimers, timeoutRefs[id])
              /\ timeoutRefs' = MapDelete(timeoutRefs, id)
         ELSE UNCHANGED <<pendingTimers, timeoutRefs>>
    /\ calls' = <<>>
    /\ raised' = FALSE
    /\ UNCHANGED <<followerStates, followTargets, altTargets, subs, nextTimer, mounted>>

setFollowerContent(id, content) ==
    /\ IF Truthy(content)
         THEN /\ followerContentRefs' = MapSet(followerContentRefs, id, content)
              /\ activeFollowerIds' = SetActiveFollowerIds(activeFollowerIds \cup {id})
         ELSE /\ followerContentRefs' = MapDelete(followerContentRefs, id)
              /\ activeFollowerIds' = SetActiveFollowerIds(activeFollowerIds \ {id})
    /\ calls' = <<>>
    /\ raised' = FALSE
    /\ UNCHANGED <<followerStates, followTargets, altTargets, subs, timers, mounted>>

setAltTarget(id, altTarget, thr) ==
    LET cs == Notify("altTarget", altTargetSubscribers, id, altTarget, thr)
    IN /\ altTargets' = IF Truthy(altTarget) THEN MapSet(altTargets, id, altTarget)
                        ELSE MapDelete(altTargets, id)
       /\ calls' = cs
       /\ raised' = Threw(cs, thr)
       /\ UNCHANGED <<followerStates, followTargets, followerContentRefs, subs,
                      timers, activeFollowerIds, mounted>>

\* an eviction that leaves the follower-state subscribers of id behind
EvictionBody_StateSubscribersKept(id) ==
    /\ followTargets' = MapDelete(followTargets, id)
    /\ altTargets' = MapDelete(altTargets, id)
    /\ followerStates' = MapDelete(followerStates, id)
    /\ followerContentRefs' = MapDelete(followerContentRefs, id)
    /\ activeFollowerIds' = SetActiveFollowerIds(activeFollowerIds \ {id})
    /\ timeoutRefs' = MapDelete(timeoutRefs, id)
    /\ targetSubscribers' = MapDelete(targetSubscribers, id)
    /\ altTargetSubscribers' = MapDelete(altTargetSubscribers, id)
    /\ followerStateSubscribers' = followerStateSubscribers

\* the body of the setTimeout callback
EvictionBody(id) ==
    /\ followTargets' = MapDelete(followTargets, id)
    /\ altTargets' = MapDelete(altTargets, id)
    /\ followerStates' = MapDelete(followerStates, id)
    /\ followerContentRefs' = MapDelete(followerContentRefs, id)
    /\ activeFollowerIds' = SetActiveFollowerIds(activeFollowerIds \ {id})
    /\ timeoutRefs' = MapDelete(timeoutRefs, id)
    /\ targetSubscribers' = MapDelete(targetSubscribers, id)
    /\ altTargetSubscribers' = MapDelete(altTargetSubscribers, id)
    /\ followerStateSubscribers' = MapDelete(followerStateSubscribers, id)

\* an unregistration that records a handle whose timer never comes due
ScheduleEviction_NeverDue(id) ==
    /\ pendingTimers' = pendingTimers
    /\ timeoutRefs' = MapSet(timeoutRefs, id, nextTimer)
    /\ nextTimer' = nextTimer + 1

\* the timers after setTargetReference(id, null): a new timer is scheduled
\* and recorded; a timer recorded earlier for id is not cleared
ScheduleEviction(id) ==
    /\ pendingTimers' = Append(pendingTimers, [handle |-> nextTimer, id |-> id])
    /\ timeoutRefs' = MapSet(timeoutRefs, id, nextTimer)
    /\ nextTimer' = nextTimer + 1

\* const existingTimeout = timeoutRefs.current.get(id);
\* if (existingTimeout) { clearTimeout(existingTimeout); timeoutRefs.current.delete(id); }
CancelEviction(id) ==
    /\ IF MapHas(timeoutRefs, id)
         THEN /\ pendingTimers' = ClearTimeout(pendingTimers, timeoutRefs[id])
              /\ timeoutRefs' = MapDelete(timeoutRefs, id)
         ELSE UNCHANGED <<pendingTimers, timeoutRefs>>
    /\ UNCHANGED nextTimer

\* an unregistration that evicts the content at once instead of deferring
setTargetReference_EvictsAtOnce(id, followTargetElement, thr) ==
    LET cs == Notify("target", targetSubscribers, id, followTargetElement, thr)
    IN /\ IF ~Truthy(followTargetElement)
            THEN /\ ScheduleEviction(id)
                 /\ followTargets' = MapDelete(followTargets, id)
                 /\ followerContentRefs' = MapDelete(followerContentRefs, id)
                 /\ activeFollowerIds' = SetActiveFollowerIds(activeFollowerIds \ {id})
            ELSE /\ CancelEviction(id)
                 /\ followTargets' = MapSet(followTargets, id, followTargetElement)
                 /\ UNCHANGED <<followerContentRefs, activeFollowerIds>>
       /\ calls' = cs
       /\ raised' = Threw(cs, thr)
       /\ UNCHANGED <<followerStates, altTargets, subs, mounted>>

setTargetReference(id, followTargetElement, thr) ==
    LET cs == Notify("target", targetSubscribers, id, followTargetElement, thr)
    IN /\ IF ~Truthy(followTargetElement)
            THEN /\ ScheduleEviction(id)
                 /\ followTargets' = MapDelete(followTargets, id)
            ELSE /\ CancelEviction(id)
                 /\ followTargets' = MapSet(followTargets, id, followTargetElement)
       /\ calls' = cs
       /\ raised' = Threw(cs, thr)
       /\ UNCHANGED <<followerStates, altTargets, followerContentRefs, subs,
                      activeFollowerIds, mounted>>

\* the earliest pending grace timer comes due and its callback runs
TimerFire ==
    /\ pendingTimers # <<>>
    /\ EvictionBody(Head(pendingTimers).id)
    /\ pendingTimers' = Tail(pendingTimers)
    /\ calls' = <<Call("timeout", Head(pendingTimers).id, Head(pendingTimers).handle, Null)>>
    /\ raised' = FALSE
    /\ UNCHANGED <<nextTimer, mounted>>

\* if (!map.has(id)) map.set(id, new Set()); map.get(id)!.add(callback)
AddSubscriber(submap, id, callback) ==
    MapSet(submap, id, SetAdd(MapGetOr(submap, id, <<>>), callback))

\* an unsubscribe that drops the per-id Set without looking at what is in it
RemoveSubscriber_DropsSet(submap, id, callback) == MapDelete(submap, id)

\* the returned unsubscribe function
RemoveSubscriber(submap, id, callback) ==
    IF MapHas(submap, id)
      THEN LET s == SetDelete(submap[id], callback)
           IN IF Len(s) = 0 THEN MapDelete(submap, id) ELSE MapSet(submap, id, s)
      ELSE submap

\* the value each subscribe hands to the new callback
CurrentTarget(id) == OrNull(MapGet(followTargets, id))
CurrentAltTarget(id) == MapGet(altTargets, id)
CurrentState(id) == MapGetOr(followerStates, id, EmptyState)

\* a subscribe that registers the callback without calling it
Replay_Skipped(kind, id, callback, val) == <<>>

\* the single call a subscribe makes: callback(current)
Replay(kind, id, callback, val) == <<Call(kind, id, callback, val)>>

subscribeToTarget(id, callback) ==
    /\ targetSubscribers' = AddSubscriber(targetSubscribers, id, callback)
    /\ calls' = Replay("target", id, callback, CurrentTarget(id))
    /\ raised' = FALSE
    /\ UNCHANGED <<store, altTargetSubscribers, followerStateSubscribers,
                   timers, activeFollowerIds, mounted>>

subscribeToAltTarget(id, callback) ==
    /\ altTargetSubscribers' = AddSubscriber(altTargetSubscribers, id, callback)
    /\ calls' = Replay("altTarget", id, callback, CurrentAltTarget(id))
    /\ raised' = FALSE
    /\ UNCHANGED <<store, targetSubscribers, followerStateSubscribers,
                   timers, activeFollowerIds, mounted>>

subscribeFollowerState(id, callback) ==
    /\ followerStateSubscribers' = AddSubscriber(followerStateSubscribers, id, callback)
    /\ calls' = Replay("state", id, callback, CurrentState(id))
    /\ raised' = FALSE
    /\ UNCHANGED <<store, targetSubscribers, altTargetSubscribers,
                   timers, activeFollowerIds, mounted>>

unsubscribeTarget(id, callback) ==
    /\ targetSubscribers' = RemoveSubscriber(targetSubscribers, id, callback)
    /\ calls' = <<>>
    /\ raised' = FALSE
    /\ UNCHANGED <<store, altTargetSubscribers, followerStateSubscribers,
                   timers, activeFollowerIds, mounted>>

unsubscribeAltTarget(id, callback) ==
    /\ altTargetSubscribers' = RemoveSubscriber(altTargetSubscribers, id, callback)
    /\ calls' = <<>>
    /\ raised' = FALSE
    /\ UNCHANGED <<store, targetSubscribers, followerStateSubscribers,
                   timers, activeFollowerIds, mounted>>

unsubscribeFollowerState(id, callback) ==
    /\ followerStateSubscribers' = RemoveSubscriber(followerStateSubscribers, id, callback)
    /\ calls' = <<>>
    /\ raised' = FALSE
    /\ UNCHANGED <<store, targetSubscribers, altTargetSubscribers,
                   timers, activeFollowerIds, mounted>>

\* a cleanup that empties the three subscriber maps instead of deleting the
\* entry of id from each
cleanupFollower_ClearsSubscribers(id) ==
    /\ CancelEviction(id)
    /\ followTargets' = MapDelete(followTargets, id)
    /\ altTargets' = MapDelete(altTargets, id)
    /\ followerStates' = MapDelete(followerStates, id)
    /\ followerContentRefs' = MapDelete(followerContentRefs, id)
    /\ activeFollowerIds' = SetActiveFollowerIds(activeFollowerIds \ {id})
    /\ targetSubscribers' = EmptyMap
    /\ altTargetSubscribers' = EmptyMap
    /\ followerStateSubscribers' = EmptyMap
    /\ calls' = <<>>
    /\ raised' = FALSE
    /\ UNCHANGED mounted

cleanupFollower(id) ==
    /\ CancelEviction(id)
    /\ followTargets' = MapDelete(followTargets, id)
    /\ altTargets' = MapDelete(altTargets, id)
    /\ followerStates' = MapDelete(followerStates, id)
    /\ followerContentRefs' = MapDelete(followerContentRefs, id)
    /\ activeFollowerIds' = SetActiveFollowerIds(activeFollowerIds \ {id})
    /\ targetSubscribers' = MapDelete(targetSubscribers, id)
    /\ altTargetSubscribers' = MapDelete(altTargetSubscribers, id)
    /\ followerStateSubscribers' = MapDelete(followerStateSubscribers, id)
    /\ calls' = <<>>
    /\ raised' = FALSE
    /\ UNCHANGED mounted

\* timeoutRefs.forEach(timeoutId => clearTimeout(timeoutId))
RECURSIVE ClearAll(_, _)
ClearAll(q, hs) ==
    IF hs = {} THEN q
    ELSE LET h == CHOOSE x \in hs : TRUE IN ClearAll(ClearTimeout(q, h), hs \ {h})

\* the provider unmounts: its effect cleanup clears every recorded timer
Unmount ==
    /\ mounted
    /\ mounted' = FALSE
    /\ pendingTimers' = ClearAll(pendingTimers, {timeoutRefs[i] : i \in DOMAIN timeoutRefs})
    /\ timeoutRefs' = EmptyMap
    /\ calls' = <<>>
    /\ raised' = FALSE
    /\ UNCHANGED <<store, subs, activeFollowerIds, nextTimer>>

\* ------------------------------------------------------ specifications
\* Spec: the anchor lifecycle.  While the provider is mounted its consumers
\* set content, register and unregister anchors and clean up; the provider
\* unmounts; grace timers fire.
Next ==
    \/ \E id \in Ids, c \in Contents \cup {Null, EmptyNode} :
          mounted /\ setFollowerContent(id, c) /\ UNCHANGED consumers
    \/ \E id \in Ids, el \in Elems \cup {Null} :
          /\ mounted
          /\ el = Null => nextTimer <= MaxTimers
          /\ setTargetReference(id, el, {})
          /\ UNCHANGED consumers
    \/ TimerFire /\ UNCHANGED consumers
    \/ \E id \in Ids : mounted /\ cleanupFollower(id) /\ UNCHANGED consumers
    \/ Unmount /\ UNCHANGED consumers

Spec == Init /\ [][Next]_vars

\* pending timers eventually come due
LiveSpec == Spec /\ WF_vars(TimerFire /\ UNCHANGED consumers)

\* number of facts in the store and of registered callbacks
TotalFacts ==
    Cardinality(DOMAIN followerStates) + Cardinality(DOMAIN followTargets)
    + Cardinality(DOMAIN altTargets) + Cardinality(DOMAIN followerContentRefs)

RECURSIVE SumLen(_, _)
SumLen(m, ks) ==
    IF ks = {} THEN 0
    ELSE LET k == CHOOSE x \in ks : TRUE IN Len(m[k]) + SumLen(m, ks \ {k})

TotalSubs ==
    SumLen(targetSubscribers, DOMAIN targetSubscribers)
    + SumLen(altTargetSubscribers, DOMAIN altTargetSubscribers)
    + SumLen(followerStateSubscribers, DOMAIN followerStateSubscribers)

Subscribed(submap, id, cb) == MapHas(submap, id) /\ SeqHas(submap[id], cb)
Registered(submap, id) == {cb \in Cbs : Subscribed(submap, id, cb)}
CanStore(map, id) == MapHas(map, id) \/ TotalFacts < MaxFacts
CanSubscribe(submap, id, cb) == Subscribed(submap, id, cb) \/ TotalSubs < MaxSubs

\* SpecBus: the whole registry interface with subscribers, under caps on the
\* facts stored, the callbacks registered and the timers scheduled.  In each
\* publish any of the callbacks registered for the id may throw (thr).  An
\* unsubscribe function is called while its callback is registered.
NextBus ==
    \/ \E id \in Ids, arg \in StateArgs : \E thr \in SUBSET Registered(followerStateSubscribers, id) :
          /\ CanStore(followerStates, id)
          /\ setFollowerState(id, arg, thr)
          /\ UNCHANGED consumers
    \/ \E id \in Ids, c \in Contents \cup {Null, EmptyNode} :
          /\ Truthy(c) => CanStore(followerContentRefs, id)
          /\ setFollowerContent(id, c)
          /\ UNCHANGED consumers
    \/ \E id \in Ids, a \in Points \cup {Undefined} : \E thr \in SUBSET Registered(altTargetSubscribers, id) :
          /\ Truthy(a) => CanStore(altTargets, id)
          /\ setAltTarget(id, a, thr)
          /\ UNCHANGED consumers
    \/ \E id \in Ids, el \in Elems \cup {Null} : \E thr \in SUBSET Registered(targetSubscribers, id) :
          /\ IF el = Null THEN nextTimer <= MaxBusTimers ELSE CanStore(followTargets, id)
          /\ setTargetReference(id, el, thr)
          /\ UNCHANGED consumers
    \/ TimerFire /\ UNCHANGED consumers
    \/ \E id \in Ids, cb \in Cbs :
          CanSubscribe(targetSubscribers, id, cb) /\ subscribeToTarget(id, cb)
          /\ UNCHANGED consumers
    \/ \E id \in Ids, cb \in Cbs :
          CanSubscribe(altTargetSubscribers, id, cb) /\ subscribeToAltTarget(id, cb)
          /\ UNCHANGED consumers
    \/ \E id \in Ids, cb \in Cbs :
          CanSubscribe(followerStateSubscribers, id, cb) /\ subscribeFollowerState(id, cb)
          /\ UNCHANGED consumers
    \/ \E id \in Ids, cb \in Cbs :
          Subscribed(targetSubscribers, id, cb) /\ unsubscribeTarget(id, cb)
          /\ UNCHANGED consumers
    \/ \E id \in Ids, cb \in Cbs :
          Subscribed(altTargetSubscribers, id, cb) /\ unsubscribeAltTarget(id, cb)
          /\ UNCHANGED consumers
    \/ \E id \in Ids, cb \in Cbs :
          Subscribed(followerStateSubscribers, id, cb) /\ unsubscribeFollowerState(id, cb)
          /\ UNCHANGED consumers
    \/ \E id \in Ids : cleanupFollower(id) /\ UNCHANGED consumers

SpecBus == Init /\ [][NextBus]_vars

\* ------------------------------------------- held unsubscribe functions
\* Each subscribe returns a function that closes over id and callback; the
\* caller keeps it.  unsubFns maps the functions held to what became of them:
\* "held" (not called yet), "done" (called while the callback was
\* registered), "twice" (called again after that), "gone" (first called
\* when the callback was no longer registered: the Set of id had been
\* deleted by an eviction or by cleanupFollower).
Kinds == {"target", "altTarget", "state"}
Closure(kind, id, cb) == [kind |-> kind, id |-> id, cb |-> cb]
Closures == {Closure(k, i, c) : k \in Kinds, i \in Ids, c \in Cbs}

SubscribersOf(kind) ==
    CASE kind = "target" -> targetSubscribers
      [] kind = "altTarget" -> altTargetSubscribers
      [] OTHER -> followerStateSubscribers

IsRegistered(f) == Subscribed(SubscribersOf(f.kind), f.id, f.cb)

\* const unsubscribe = subscribeTo...(id, (v) => { ... }): the callback is a
\* new function at every subscribe; it is named by the first number no
\* earlier callback of this kind and id has
IsFresh(kind, id, cb) ==
    \A c \in Cbs : MapHas(unsubFns, Closure(kind, id, c)) <=> c < cb

KeepUnsubscribe(kind, id, cb) ==
    /\ IsFresh(kind, id, cb)
    /\ unsubFns' = MapSet(unsubFns, Closure(kind, id, cb), "held")

AfterCall(f) ==
    CASE unsubFns[f] = "held" -> IF IsRegistered(f) THEN "done" ELSE "gone"
      [] unsubFns[f] = "done" -> "twice"
      [] OTHER -> unsubFns[f]

\* a held unsubscribe function is called
CallUnsubscribe(f) ==
    /\ MapHas(unsubFns, f)
    /\ CASE f.kind = "target" -> unsubscribeTarget(f.id, f.cb)
         [] f.kind = "altTarget" -> unsubscribeAltTarget(f.id, f.cb)
         [] OTHER -> unsubscribeFollowerState(f.id, f.cb)
    /\ unsubFns' = MapSet(unsubFns, f, AfterCall(f))
    /\ UNCHANGED components

\* SpecUnsub: callers subscribe, keep the unsubscribe functions and call
\* them at any time, any number of times, while anchors are unregistered,
\* grace timers fire and followers are cleaned up.
NextUnsub ==
    \/ \E id \in Ids, cb \in Cbs :
          /\ Cardinality(DOMAIN unsubFns) < MaxClosures
          /\ subscribeToTarget(id, cb)
          /\ KeepUnsubscribe("target", id, cb)
          /\ UNCHANGED components
    \/ \E id \in Ids, cb \in Cbs :
          /\ Cardinality(DOMAIN unsubFns) < MaxClosures
          /\ subscribeToAltTarget(id, cb)
          /\ KeepUnsubscribe("altTarget", id, cb)
          /\ UNCHANGED components
    \/ \E id \in Ids, cb \in Cbs :
          /\ Cardinality(DOMAIN unsubFns) < MaxClosures
          /\ subscribeFollowerState(id, cb)
          /\ KeepUnsubscribe("state", id, cb)
          /\ UNCHANGED components
    \/ \E f \in Closures : CallUnsubscribe(f)
    \/ \E id \in Ids :
          /\ nextTimer <= MaxBusTimers
          /\ setTargetReference(id, Null, {})
          /\ UNCHANGED consumers
    \/ TimerFire /\ UNCHANGED consumers
    \/ \E id \in Ids : cleanupFollower(id) /\ UNCHANGED consumers

SpecUnsub == Init /\ [][NextUnsub]_vars

\* ------------------------------------------------------------ rendering
\* the ids the provider renders a <Follower> for
FollowerUnits == {id \in activeFollowerIds : Truthy(getFollowerContent(id))}

\* ------------------------------------------------------- <Follower> units
\* A <Follower> is mounted for every id the provider renders one for.  Its
\* record holds the React state of useFollowerStateInternal (followEntry,
\* altTarget, the isInitiallyPositioned ref), what useFloating and
\* useTransitionStatus hold for it (reference, positionReference, x, status),
\* the spring of its <SpringFollower>, what its last render saw (rendered)
\* and whether a render of it has shown a computed rectangle (shownPlaced).

\* the positioning sources handed to useFloating, and the (x, y) it returns:
\* (0, 0) until the first computePosition, then the rectangle of a source;
\* NoSource is the position reference null
NoSource == [type |-> "none", of |-> Null]
Origin == [type |-> "origin", of |-> Null]
ElementSource(el) == [type |-> "element", of |-> el]
VirtualElement(altTarget) == [type |-> "virtual", of |-> altTarget]

\* no <SpringFollower> is mounted
NoSpring == [value |-> NoSource, target |-> NoSource]

\* the callback a <Follower> subscribes with
FollowerCb == Null + 1

\* a visibility that looks at the anchor only
shouldBeVisible_AnchorOnly(followEntry, altTarget) == Truthy(followEntry)

\* const shouldBeVisible = !!followEntry || !!altTarget
shouldBeVisible(followEntry, altTarget) == Truthy(followEntry) \/ Truthy(altTarget)

\* const shouldAnimate = shouldBeVisible && isInitiallyPositioned.current
shouldAnimate(visible, isInitiallyPositioned) == visible /\ isInitiallyPositioned

\* const useInertial = followerState.inertialMode || false
useInertial(id) == getFollowerState(id).inertialMode = "true"

\* const springConfig = followerState.springConfig || {}
springConfigOf(id) ==
    IF getFollowerState(id).springConfig = Undefined THEN 1
    ELSE getFollowerState(id).springConfig

\* a ?? b written as a || b: a zero counts as left out
Coalesce_Or(v, d) == IF v = Undefined \/ v = 0 THEN d ELSE v

\* a ?? b on a number | undefined
Coalesce(v, d) == IF v = Undefined THEN d ELSE v

DefaultStiffness == 400
DefaultDamping == 40
DefaultMass == 1

\* no <SpringFollower> is mounted
NoParams == [stiffness |-> Undefined, damping |-> Undefined, mass |-> Undefined]

\* const stiffness = springConfig.stiffness ?? 400; damping ?? 40; mass ?? 1
SpringParams(springConfig) ==
    [stiffness |-> Coalesce(ConfigField(springConfig, "stiffness"), DefaultStiffness),
     damping |-> Coalesce(ConfigField(springConfig, "damping"), DefaultDamping),
     mass |-> Coalesce(ConfigField(springConfig, "mass"), DefaultMass)]

\* what a render of the <Follower> of id computes from its hooks
RenderOf(id, u) ==
    [followEntry |-> u.followEntry,
     altTarget |-> u.altTarget,
     isOpen |-> u.status = "open",
     x |-> u.x,
     useInertial |-> useInertial(id),
     springConfig |-> springConfigOf(id),
     shouldBeVisible |-> shouldBeVisible(u.followEntry, u.altTarget),
     shouldAnimate |-> shouldAnimate(shouldBeVisible(u.followEntry, u.altTarget),
                                     u.isInitiallyPositioned)]

\* refs.setReference / refs.setPositionReference of useFloating
setReference(u, node) == [u EXCEPT !.reference = node]
setPositionReference(u, node) == [u EXCEPT !.positionReference = node]

\* useFloating positions against the position reference when one is set,
\* else against the reference
PosSource(u) ==
    IF u.positionReference # NoSource THEN u.positionReference
    ELSE IF u.reference # Null THEN ElementSource(u.reference)
    ELSE NoSource

\* a flag effect that takes being visible for having been open
MarkPositioned_WhenVisible(u, first, old, new) ==
    IF ~u.isInitiallyPositioned /\ new.shouldBeVisible
      THEN [u EXCEPT !.isInitiallyPositioned = TRUE]
      ELSE u

\* useEffect(() => { ... isInitiallyPositioned.current = true }, [isOpen])
MarkPositioned(u, first, old, new) ==
    IF (first \/ old.isOpen # new.isOpen) /\ ~u.isInitiallyPositioned /\ new.isOpen
      THEN [u EXCEPT !.isInitiallyPositioned = TRUE]
      ELSE u

\* the cleanup of the position-reference effect: () => refs.setPositionReference(null)
PositionCleanup(u, old) ==
    IF Truthy(old.altTarget) THEN setPositionReference(u, NoSource) ELSE u

\* useEffect(() => { if (altTarget) ... else ... }, [altTarget, followEntry, refs])
PositionEffect(u, first, old, new) ==
    IF first \/ old.altTarget # new.altTarget \/ old.followEntry # new.followEntry
      THEN LET c == IF first THEN u ELSE PositionCleanup(u, old)
           IN IF Truthy(new.altTarget)
                THEN setPositionReference(c, VirtualElement(new.altTarget))
                ELSE setReference(c, OrNull(new.followEntry))
      ELSE u

\* a reference effect that hands the anchor over as the position reference
ReferenceEffect_AsPosition(u, first, old, new) ==
    IF (first \/ old.followEntry # new.followEntry) /\ Truthy(new.followEntry)
      THEN setPositionReference(u, ElementSource(new.followEntry))
      ELSE u

\* useEffect(() => { if (followEntry) refs.setReference(followEntry) }, [refs, followEntry])
ReferenceEffect(u, first, old, new) ==
    IF (first \/ old.followEntry # new.followEntry) /\ Truthy(new.followEntry)
      THEN setReference(u, new.followEntry)
      ELSE u

\* useTransitionStatus: "initial" once the floating element is rendered open,
\* "unmounted" again when it is not
StatusAfter(u, new) ==
    IF new.shouldBeVisible
      THEN IF u.status = "unmounted" THEN [u EXCEPT !.status = "initial"] ELSE u
      ELSE [u EXCEPT !.status = "unmounted"]

\* the two springs springX, springY of a <SpringFollower>: a position on the
\* x axis and one on the y axis, each named by the position whose coordinate
\* it is (the x of a unit stands for the pair x, y of useFloating, which are
\* numbers in every render)
Axes(floatingX, floatingY) == [x |-> floatingX, y |-> floatingY]

\* an effect that retargets springX only
SetTargets_XOnly(spring, floatingX, floatingY) ==
    [spring EXCEPT !.target = Axes(floatingX, spring.target.y)]

\* if (typeof floatingX === "number") springX.set(floatingX);
\* if (typeof floatingY === "number") springY.set(floatingY);
SetTargets(spring, floatingX, floatingY) ==
    [spring EXCEPT !.target = Axes(floatingX, floatingY)]

\* <SpringFollower floatingX={x} floatingY={y}>: useSpring(floatingX) starts a
\* newly mounted spring at the x of that render; the effect set()s the
\* target whenever x changes
SpringAfter(u, new) ==
    IF ~(new.shouldBeVisible /\ new.useInertial)
      THEN [u EXCEPT !.spring = NoSpring, !.springParams = NoParams]
    ELSE IF u.spring = NoSpring
      THEN [u EXCEPT !.spring = SetTargets([value |-> Axes(new.x, new.x),
                                            target |-> Axes(new.x, new.x)],
                                           new.x, new.x),
                     !.springParams = SpringParams(new.springConfig)]
    ELSE [u EXCEPT !.spring = SetTargets(u.spring, new.x, new.x),
                   !.springParams = SpringParams(new.springConfig)]

\* a render of the <Follower> of id and the commit and effects that follow
Commit(id, u, first) ==
    LET old == u.rendered
        new == RenderOf(id, u)
        e1 == MarkPositioned(u, first, old, new)
        e2 == PositionEffect(e1, first, old, new)
        e3 == ReferenceEffect(e2, first, old, new)
        e4 == StatusAfter(e3, new)
        e5 == SpringAfter(e4, new)
    IN [e5 EXCEPT !.rendered = new,
                  !.shownPlaced = u.shownPlaced \/ (new.shouldBeVisible /\ new.x # Origin)]

\* the hooks of a <Follower> at its first render
NewUnit ==
    [followEntry |-> Null, altTarget |-> Undefined, isInitiallyPositioned |-> FALSE,
     reference |-> Null, positionReference |-> NoSource, status |-> "unmounted",
     x |-> Origin, spring |-> NoSpring, springParams |-> NoParams,
     shownPlaced |-> FALSE,
     rendered |-> [followEntry |-> Null, altTarget |-> Undefined, isOpen |-> FALSE,
                   x |-> Origin, useInertial |-> FALSE, springConfig |-> 1,
                   shouldBeVisible |-> FALSE,
                   shouldAnimate |-> FALSE]]

\* a <Follower> mounts: first render, then its effects, of which the two
\* subscribes call back at once with the current anchor and virtual point
MountedUnit(id) ==
    LET u == Commit(id, NewUnit, TRUE)
    IN [u EXCEPT !.followEntry = CurrentTarget(id), !.altTarget = CurrentAltTarget(id)]

\* a state of the unit changed since its last render
Dirty(u) ==
    \/ u.followEntry # u.rendered.followEntry
    \/ u.altTarget # u.rendered.altTarget
    \/ (u.status = "open") # u.rendered.isOpen
    \/ u.x # u.rendered.x

\* the subscriber callbacks of the units: (target) => setFollowEntry(target)
\* and (altTarget) => setAltTarget(altTarget)
RECURSIVE Heard(_, _)
Heard(us, cs) ==
    IF cs = <<>> THEN us
    ELSE LET c == Head(cs)
             next == IF c.id \in DOMAIN us /\ c.cb = FollowerCb /\ c.kind = "target"
                       THEN [us EXCEPT ![c.id].followEntry = c.val]
                     ELSE IF c.id \in DOMAIN us /\ c.cb = FollowerCb /\ c.kind = "altTarget"
                       THEN [us EXCEPT ![c.id].altTarget = c.val]
                     ELSE us
         IN Heard(next, Tail(cs))

RECURSIVE SubscribeAll(_, _)
SubscribeAll(submap, ids) ==
    IF ids = {} THEN submap
    ELSE LET i == CHOOSE x \in ids : TRUE
         IN SubscribeAll(AddSubscriber(submap, i, FollowerCb), ids \ {i})

RECURSIVE UnsubscribeAll(_, _)
UnsubscribeAll(submap, ids) ==
    IF ids = {} THEN submap
    ELSE LET i == CHOOSE x \in ids : TRUE
         IN UnsubscribeAll(RemoveSubscriber(submap, i, FollowerCb), ids \ {i})

\* the provider renders: the <Follower>s of ids no longer rendered unmount
\* (their effect cleanups unsubscribe), those rendered before render again,
\* new ones mount (their effects subscribe)
ProviderRender ==
    /\ mounted
    /\ LET gone == DOMAIN units \ FollowerUnits
           new == FollowerUnits \ DOMAIN units
       IN /\ units' = [id \in FollowerUnits |->
                          IF id \in DOMAIN units THEN Commit(id, units[id], FALSE)
                          ELSE MountedUnit(id)]
          /\ targetSubscribers' = SubscribeAll(UnsubscribeAll(targetSubscribers, gone), new)
          /\ altTargetSubscribers' = SubscribeAll(UnsubscribeAll(altTargetSubscribers, gone), new)
    /\ renderPending' = FALSE
    /\ calls' = <<>>
    /\ raised' = FALSE
    /\ hookError' = NoError
    /\ UNCHANGED <<store, followerStateSubscribers, timers, activeFollowerIds,
                   mounted, unsubFns, app>>

\* a <Follower> whose state changed renders again
UnitRender(id) ==
    /\ id \in DOMAIN units
    /\ Dirty(units[id])
    /\ units' = [units EXCEPT ![id] = Commit(id, units[id], FALSE)]
    /\ calls' = <<>>
    /\ raised' = FALSE
    /\ hookError' = NoError
    /\ UNCHANGED <<store, subs, timers, activeFollowerIds, mounted, unsubFns, app,
                   renderPending>>

\* computePosition resolves for the floating element of id: x, y become the
\* rectangle of the current positioning source, and useFloating renders the
\* unit with them at once (it sets its data inside flushSync)
PositionResolved(id) ==
    /\ id \in DOMAIN units
    /\ units[id].rendered.shouldBeVisible
    /\ PosSource(units[id]) # NoSource
    /\ units[id].x # PosSource(units[id])
    /\ units' = [units EXCEPT ![id] =
                    Commit(id, [units[id] EXCEPT !.x = PosSource(units[id])], FALSE)]
    /\ calls' = <<>>
    /\ raised' = FALSE
    /\ hookError' = NoError
    /\ UNCHANGED <<store, subs, timers, activeFollowerIds, mounted, unsubFns, app,
                   renderPending>>

\* the animation frame of useTransitionStatus: status becomes "open"; it
\* comes after the promise of computePosition resolved
StatusOpen(id) ==
    /\ id \in DOMAIN units
    /\ units[id].rendered.shouldBeVisible
    /\ units[id].status = "initial"
    /\ units[id].x = PosSource(units[id])
    /\ units' = [units EXCEPT ![id].status = "open"]
    /\ calls' = <<>>
    /\ raised' = FALSE
    /\ hookError' = NoError
    /\ UNCHANGED <<store, subs, timers, activeFollowerIds, mounted, unsubFns, app,
                   renderPending>>

\* the spring of a <SpringFollower> reaches its target
SpringSettles(id) ==
    /\ id \in DOMAIN units
    /\ units[id].spring # NoSpring
    /\ units[id].spring.value # units[id].spring.target
    /\ units' = [units EXCEPT ![id].spring.value = units[id].spring.target]
    /\ calls' = <<>>
    /\ raised' = FALSE
    /\ hookError' = NoError
    /\ UNCHANGED <<store, subs, timers, activeFollowerIds, mounted, unsubFns, app,
                   renderPending>>

\* what a registry operation called from a component leaves with the
\* components: the units heard its callbacks; the provider renders again
\* when the operation called setActiveFollowerIds
Published(rerender) ==
    /\ units' = Heard(units, calls')
    /\ renderPending' = (renderPending \/ rerender)
    /\ hookError' = NoError
    /\ UNCHANGED <<unsubFns, app>>

\* the ids FollowPortals are rendered with
PortalIds == 1..NumUnits

\* setFollowerState(id, (prev) => ({ ...prev, inertialMode: useInertial || false }))
InertialArgs == {InertialUpdater("true"), InertialUpdater("false")}

\* SpecFollower: FollowPortals set content, virtual points, the inertial
\* flag and anchors, grace timers fire, the provider and the followers render
\* and the positioning library delivers rectangles.
NextFollower ==
    \/ \E id \in PortalIds, c \in Contents \cup {Null} :
          setFollowerContent(id, c) /\ Published(TRUE)
    \/ \E id \in PortalIds, a \in Points \cup {Undefined} :
          setAltTarget(id, a, {}) /\ Published(FALSE)
    \/ \E id \in PortalIds, arg \in InertialArgs :
          setFollowerState(id, arg, {}) /\ Published(FALSE)
    \/ \E id \in PortalIds, el \in Elems \cup {Null} :
          /\ el = Null => nextTimer <= MaxBusTimers
          /\ setTargetReference(id, el, {})
          /\ Published(FALSE)
    \/ TimerFire /\ Published(TRUE)
    \/ \E id \in PortalIds : cleanupFollower(id) /\ Published(TRUE)
    \/ ProviderRender
    \/ \E id \in PortalIds : UnitRender(id)
    \/ \E id \in PortalIds : PositionResolved(id)
    \/ \E id \in PortalIds : StatusOpen(id)
    \/ \E id \in PortalIds : SpringSettles(id)

SpecFollower == Init /\ [][NextFollower]_vars

\* React runs every scheduled render, the placement library resolves every
\* computePosition and its animation frame comes
LiveFollower ==
    /\ SpecFollower
    /\ WF_vars(ProviderRender)
    /\ \A id \in PortalIds :
          /\ WF_vars(UnitRender(id))
          /\ WF_vars(PositionResolved(id))
          /\ WF_vars(StatusOpen(id))

\* SpecSpring: FollowPortals with useInertial and springConfig props; their
\* effects store the flag and the config object, the provider and the
\* followers render and the positioning library delivers rectangles.
NextSpring ==
    \/ \E id \in PortalIds, c \in Contents :
          setFollowerContent(id, c) /\ Published(TRUE)
    \/ \E id \in PortalIds, a \in Points \cup {Undefined} :
          setAltTarget(id, a, {}) /\ Published(FALSE)
    \/ \E id \in PortalIds, arg \in InertialArgs :
          setFollowerState(id, arg, {}) /\ Published(FALSE)
    \/ \E id \in PortalIds, c \in AllConfigs :
          setFollowerState(id, SpringUpdater(c), {}) /\ Published(FALSE)
    \/ ProviderRender
    \/ \E id \in PortalIds : UnitRender(id)
    \/ \E id \in PortalIds : PositionResolved(id)
    \/ \E id \in PortalIds : StatusOpen(id)
    \/ \E id \in PortalIds : SpringSettles(id)

SpecSpring == Init /\ [][NextSpring]_vars

\* ---------------------------------------------------------- the demo app
\* Time is counted in periods of the move-check interval.
NumQuadrants == 4
NumAppTargets == 2
MinMoveDelay == 2
Quadrants == 0..(NumQuadrants - 1)
AppTargets == 1..NumAppTargets
MoveDelays == MinMoveDelay..MaxMoveDelay      \* 2000 + Math.random() * 4000
InitialDelays == 0..MaxInitialDelay            \* Math.random() * 3000

\* the reshuffle button as rendered (its text without the leading emoji)
ReshuffleButton(reshufflingEnabled) ==
    [text |-> IF reshufflingEnabled THEN "Reshuffle ON" ELSE "Reshuffle OFF",
     class |-> IF reshufflingEnabled THEN "control-button reshuffle-active"
               ELSE "control-button reshuffle-inactive"]

\* <AppContent> renders first: useState(true), two targets in random
\* quadrants with random first move times; the effect starts the interval
AppMount(quadrants, delays) ==
    /\ ~app.mounted
    /\ app' = [mounted |-> TRUE,
               reshufflingEnabled |-> TRUE,
               now |-> 0,
               targets |-> [t \in AppTargets |->
                              [id |-> t, quadrant |-> quadrants[t], nextMoveTime |-> delays[t]]],
               intervalSees |-> TRUE,
               button |-> ReshuffleButton(TRUE),
               handlersSee |-> NumAppTargets,
               clickTarget |-> Undefined,
               timeoutId |-> Null,
               clearTimers |-> <<>>,
               cancelled |-> {},
               nextTimeout |-> 1]
    /\ UNCHANGED <<store, subs, timers, activeFollowerIds, mounted, calls, raised,
                   unsubFns, units, renderPending, hookError>>

\* onClick={() => setReshufflingEnabled(!reshufflingEnabled)}, the render
\* the click causes and the effect of that render, which replaces the
\* interval by one whose callback sees the new flag
ClickReshuffle ==
    /\ app.mounted
    /\ app' = [app EXCEPT !.reshufflingEnabled = ~app.reshufflingEnabled,
                          !.intervalSees = ~app.reshufflingEnabled,
                          !.button = ReshuffleButton(~app.reshufflingEnabled)]
    /\ UNCHANGED <<store, subs, timers, activeFollowerIds, mounted, calls, raised,
                   unsubFns, units, renderPending, hookError>>

\* a move check that does not look at the flag
checkAndMoveTargets_NoSkip(reshufflingEnabled, now, targets, random) ==
    [t \in DOMAIN targets |->
       IF now >= targets[t].nextMoveTime
         THEN [targets[t] EXCEPT !.quadrant = random[t].quadrant,
                                 !.nextMoveTime = now + random[t].delay]
         ELSE targets[t]]

\* checkAndMoveTargets: nothing when reshuffling is disabled; else every
\* target that is due moves to another quadrant and gets a new move time
checkAndMoveTargets(reshufflingEnabled, now, targets, random) ==
    IF ~reshufflingEnabled THEN targets
    ELSE [t \in DOMAIN targets |->
            IF now >= targets[t].nextMoveTime
              THEN [targets[t] EXCEPT !.quadrant = random[t].quadrant,
                                      !.nextMoveTime = now + random[t].delay]
              ELSE targets[t]]

\* the interval comes due one period later and runs its callback; random
\* holds what Math.random() yields for each target (the do-while draws
\* again until the quadrant differs)
IntervalFires(random) ==
    /\ app.mounted
    /\ app.now < MaxNow
    /\ \A t \in AppTargets : random[t].quadrant # app.targets[t].quadrant
    /\ app' = [app EXCEPT !.now = app.now + 1,
                          !.targets = checkAndMoveTargets(app.intervalSees, app.now + 1,
                                                          app.targets, random)]
    /\ UNCHANGED <<store, subs, timers, activeFollowerIds, mounted, calls, raised,
                   unsubFns, units, renderPending, hookError>>

\* SpecApp: the demo page, its reshuffle button and its move check
NextApp ==
    \/ \E quadrants \in [AppTargets -> Quadrants], delays \in [AppTargets -> InitialDelays] :
          AppMount(quadrants, delays)
    \/ ClickReshuffle
    \/ \E random \in [AppTargets -> [quadrant : Quadrants, delay : MoveDelays]] :
          IntervalFires(random)

SpecApp == Init /\ [][NextApp]_vars

\* <AppContent> renders again: the handlers of the new render close over
\* the targets of that render
AppRender ==
    /\ app.mounted
    /\ app.handlersSee # Len(app.targets)
    /\ app' = [app EXCEPT !.handlersSee = Len(app.targets)]
    /\ UNCHANGED <<store, subs, timers, activeFollowerIds, mounted, calls, raised,
                   unsubFns, units, renderPending, hookError>>

\* const newId = (targets.length + 1).toString(): targets is the list of
\* the render the handler belongs to; setTargets(prev => [...prev, newTarget])
addTarget(quadrant, delay) ==
    /\ app.mounted
    /\ Len(app.targets) < MaxTargetList
    /\ app' = [app EXCEPT !.targets = Append(app.targets,
                                             [id |-> app.handlersSee + 1,
                                              quadrant |-> quadrant,
                                              nextMoveTime |-> app.now + delay])]
    /\ UNCHANGED <<store, subs, timers, activeFollowerIds, mounted, calls, raised,
                   unsubFns, units, renderPending, hookError>>

\* prev.slice(0, -1)
SliceLast(prev) == SubSeq(prev, 1, Len(prev) - 1)

\* if (targets.length > 1) setTargets(prev => prev.slice(0, -1)): the
\* length tested is that of the render the handler belongs to
removeTarget ==
    /\ app.mounted
    /\ app' = IF app.handlersSee > 1
                THEN [app EXCEPT !.targets = SliceLast(app.targets)]
                ELSE app
    /\ UNCHANGED <<store, subs, timers, activeFollowerIds, mounted, calls, raised,
                   unsubFns, units, renderPending, hookError>>

\* SpecTargets: the demo page and its add and remove buttons; a click may
\* be handled before the render the previous click asked for
NextTargets ==
    \/ \E quadrants \in [AppTargets -> Quadrants], delays \in [AppTargets -> InitialDelays] :
          AppMount(quadrants, delays)
    \/ AppRender
    \/ \E quadrant \in Quadrants, delay \in InitialDelays : addTarget(quadrant, delay)
    \/ removeTarget

SpecTargets == Init /\ [][NextTargets]_vars

\* the points of the page a click can land on
ClickPoints == 1..NumClickPoints

\* the handles of the pending timers in q
PendingHandles(q) == {q[i].handle : i \in 1..Len(q)}

\* a click handler that starts its timer without clearing the one before
handlePageClick_KeepsTimer(point) ==
    /\ app.mounted
    /\ app.nextTimeout <= MaxClicks
    /\ app' = [app EXCEPT !.clickTarget = point,
                          !.clearTimers = Append(app.clearTimers, [handle |-> app.nextTimeout]),
                          !.timeoutId = app.nextTimeout,
                          !.nextTimeout = app.nextTimeout + 1]
    /\ UNCHANGED <<store, subs, timers, activeFollowerIds, mounted, calls, raised,
                   unsubFns, units, renderPending, hookError>>

\* handlePageClick: setClickTarget({x, y}); if (timeoutId.current)
\* clearTimeout(timeoutId.current); timeoutId.current = setTimeout(...).
\* cancelled records the handles cleared while their timer was pending.
handlePageClick(point) ==
    /\ app.mounted
    /\ app.nextTimeout <= MaxClicks
    /\ LET kept == IF app.timeoutId # Null
                     THEN ClearTimeout(app.clearTimers, app.timeoutId)
                     ELSE app.clearTimers
       IN app' = [app EXCEPT !.clickTarget = point,
                             !.clearTimers = Append(kept, [handle |-> app.nextTimeout]),
                             !.cancelled = app.cancelled
                                           \cup (PendingHandles(app.clearTimers) \ PendingHandles(kept)),
                             !.timeoutId = app.nextTimeout,
                             !.nextTimeout = app.nextTimeout + 1]
    /\ UNCHANGED <<store, subs, timers, activeFollowerIds, mounted, calls, raised,
                   unsubFns, units, renderPending, hookError>>

\* the oldest pending clear timer comes due: setClickTarget(undefined);
\* timeoutId.current keeps the handle
ClearTimerFires ==
    /\ app.mounted
    /\ app.clearTimers # <<>>
    /\ app' = [app EXCEPT !.clickTarget = Undefined,
                          !.clearTimers = Tail(app.clearTimers)]
    /\ UNCHANGED <<store, subs, timers, activeFollowerIds, mounted, calls, raised,
                   unsubFns, units, renderPending, hookError>>

\* SpecClick: the demo page, clicks on it and the timers that clear the
\* click target
NextClick ==
    \/ \E quadrants \in [AppTargets -> Quadrants], delays \in [AppTargets -> InitialDelays] :
          AppMount(quadrants, delays)
    \/ \E point \in ClickPoints : handlePageClick(point)
    \/ ClearTimerFires

SpecClick == Init /\ [][NextClick]_vars

\* ------------------------------------------------- hooks and the context
\* throw new Error("Wrap your app with <FollowerProvider/>")
WrapError == "Wrap your app with <FollowerProvider/>"

\* the hooks and components that read FollowerCtx
Hooks == {"useFollowerState", "useFollowerStateInternal", "Follower",
          "useFollowerTargetRef"}

\* useContext(FollowerCtx): the value of the enclosing provider, or the
\* default null of createContext when there is none
useContext(enclosed) == IF enclosed THEN "FollowerCtxType" ELSE "null"

\* a hook that destructures the context without looking at it
ContextCheck_Destructures(context) ==
    IF context = "null" THEN "TypeError: Cannot destructure property of null" ELSE ""

\* if (!context) throw new Error("Wrap your app with <FollowerProvider/>")
ContextCheck(context) == IF context = "null" THEN WrapError ELSE ""

\* a component renders and calls hook, inside a FollowerProvider or not; the
\* hook's effects, which call the registry, run after a render that returned
RenderHook(hook, enclosed) ==
    /\ enclosed => mounted
    /\ hookError' = [hook |-> hook, message |-> ContextCheck(useContext(enclosed))]
    /\ raised' = (hookError'.message # "")
    /\ calls' = <<>>
    /\ UNCHANGED <<store, subs, timers, activeFollowerIds, mounted, unsubFns, app,
                   units, renderPending>>

\* SpecUsage: the anchor lifecycle, with components that call the hooks
\* inside and outside a provider
NextUsage ==
    \/ Next
    \/ \E hook \in Hooks, enclosed \in BOOLEAN : RenderHook(hook, enclosed)

SpecUsage == Init /\ [][NextUsage]_vars

\* ---------------------------------------------------------------- claims
HasPendingTimer(id) == \E i \in 1..Len(pendingTimers) : pendingTimers[i].id = id
TimersOfOthers(id) == SelectSeq(pendingTimers, LAMBDA t : t.id # id)

\* C1 (grace survival): an id whose anchor was unregistered and registered
\* again keeps its content and stays in the active set: while the anchor of
\* id is registered, no step other than an explicit setFollowerContent or
\* cleanupFollower of id changes the content of id or removes id from the
\* active set.
C1_GraceSurvival ==
    [][\A id \in Ids :
          (/\ mounted
           /\ MapHas(followTargets, id)
           /\ MapHas(followerContentRefs, id)
           /\ ~(\E c \in Contents \cup {Null, EmptyNode} : setFollowerContent(id, c))
           /\ ~cleanupFollower(id))
          => (/\ getFollowerContent(id)' = getFollowerContent(id)
              /\ id \in activeFollowerIds')]_vars

\* C2 (re-registration cancels eviction): while the anchor of id is
\* registered, no grace timer of id is pending, so no timer evicts id while
\* its anchor is present.
C2_NoTimerWhileRegistered ==
    \A id \in Ids : MapHas(followTargets, id) => ~HasPendingTimer(id)

\* the record of id after an eviction, as the interface shows it
RecordGone(id) ==
    /\ getFollowerContent(id) = Undefined
    /\ getAltTarget(id) = Undefined
    /\ getFollowerState(id) = EmptyState
    /\ CurrentTarget(id) = Null
    /\ ~MapHas(followTargets, id)
    /\ ~MapHas(targetSubscribers, id)
    /\ ~MapHas(altTargetSubscribers, id)
    /\ ~MapHas(followerStateSubscribers, id)
    /\ mounted => id \notin activeFollowerIds

\* C3 (grace expiry): when a grace timer of id fires, the anchor, virtual
\* point, content and animation state of id are absent afterwards, every
\* subscriber set of id is gone and id is not in the active set.
C3_GraceExpiry ==
    [][\A id \in Ids :
          (TimerFire /\ Head(pendingTimers).id = id) => RecordGone(id)']_vars

C3_Witness ==
    \E id \in Ids, other \in Ids :
        /\ Len(calls) = 1 /\ calls[1].kind = "timeout" /\ calls[1].id = id
        /\ RecordGone(id)
        /\ other # id
        /\ MapHas(followerContentRefs, other)

\* GRACE: the anchor of id is absent and its eviction timer is recorded
InGrace(id) == ~MapHas(followTargets, id) /\ MapHas(timeoutRefs, id)

\* C4 (eviction liveness): an id in GRACE eventually has an anchor again,
\* or its record is gone (evicted or cleaned up), or the provider unmounted.
C4_EvictionLiveness ==
    \A id \in Ids :
        InGrace(id) ~> (MapHas(followTargets, id) \/ (RecordGone(id) /\ ~InGrace(id)) \/ ~mounted)

C4_Witness ==
    \E id \in Ids :
        /\ mounted
        /\ InGrace(id)
        /\ MapHas(followerContentRefs, id)
        /\ Head(pendingTimers).id # id

\* C5 (immediate absence): setTargetReference(id, null) removes the anchor
\* of id and calls every registered target subscriber of id with null
\* within the call.
C5_ImmediateAbsence ==
    [][\A id \in Ids : \A thr \in SUBSET Registered(targetSubscribers, id) :
          setTargetReference(id, Null, thr)
          => (/\ ~MapHas(followTargets', id)
              /\ \A c \in Cbs :
                    Subscribed(targetSubscribers, id, c)
                    => \E i \in 1..Len(calls') :
                          calls'[i] = Call("target", id, c, Null))]_vars

\* C6 (frame of anchor registration): setTargetReference(id, x) changes only
\* the anchor of id and the timers of id and calls only target subscribers
\* of id; content, virtual points, animation states, the active set, the
\* subscriber sets and everything of the other ids stay as they are.
C6_RegistrationFrame ==
    [][\A id \in Ids, el \in Elems \cup {Null} : \A thr \in SUBSET Registered(targetSubscribers, id) :
          setTargetReference(id, el, thr)
          => (/\ \A j \in Ids :
                    /\ getFollowerContent(j)' = getFollowerContent(j)
                    /\ getAltTarget(j)' = getAltTarget(j)
                    /\ MapHas(followerStates, j)' = MapHas(followerStates, j)
                    /\ getFollowerState(j)' = getFollowerState(j)
                    /\ (j \in activeFollowerIds') = (j \in activeFollowerIds)
                    /\ j # id => /\ MapGet(followTargets, j)' = MapGet(followTargets, j)
                                 /\ MapGet(timeoutRefs, j)' = MapGet(timeoutRefs, j)
              /\ TimersOfOthers(id)' = TimersOfOthers(id)
              /\ targetSubscribers' = targetSubscribers
              /\ altTargetSubscribers' = altTargetSubscribers
              /\ followerStateSubscribers' = followerStateSubscribers
              /\ \A i \in 1..Len(calls') :
                    calls'[i].kind = "target" /\ calls'[i].id = id)]_vars

C6_Witness ==
    \E id \in Ids :
        /\ Len(calls) >= 1 /\ calls[1].kind = "target" /\ calls[1].id = id
        /\ calls[1].val = Null
        /\ HasPendingTimer(id)
        /\ MapHas(followerContentRefs, id)
        /\ id \in activeFollowerIds
        /\ MapHas(altTargetSubscribers, id) \/ MapHas(followerStateSubscribers, id)

\* C7 (visibility iff content): while the provider is mounted, id is in the
\* active set, and a Follower is rendered for id, exactly when content is
\* stored for id.
C7_VisibilityIffContent ==
    mounted =>
        \A id \in Ids :
            /\ (id \in activeFollowerIds) <=> MapHas(followerContentRefs, id)
            /\ (id \in FollowerUnits) <=> MapHas(followerContentRefs, id)

C7_Witness ==
    \E id \in Ids, other \in Ids :
        /\ mounted
        /\ Len(calls) = 1 /\ calls[1].kind = "timeout" /\ calls[1].id = id
        /\ id \notin activeFollowerIds
        /\ other \in FollowerUnits

\* C8 (late subscriber replay): each subscribe registers the callback and
\* calls it, and nothing else, once with the value stored for id: the
\* element or null, the point or undefined, the state or the empty state.
C8_LateSubscriberReplay ==
    [][\A id \in Ids, cb \in Cbs :
          /\ subscribeToTarget(id, cb)
             => /\ Subscribed(targetSubscribers, id, cb)'
                /\ calls' = <<Call("target", id, cb,
                                   IF MapHas(followTargets, id) THEN followTargets[id] ELSE Null)>>
          /\ subscribeToAltTarget(id, cb)
             => /\ Subscribed(altTargetSubscribers, id, cb)'
                /\ calls' = <<Call("altTarget", id, cb,
                                   IF MapHas(altTargets, id) THEN altTargets[id] ELSE Undefined)>>
          /\ subscribeFollowerState(id, cb)
             => /\ Subscribed(followerStateSubscribers, id, cb)'
                /\ calls' = <<Call("state", id, cb,
                                   IF MapHas(followerStates, id) THEN followerStates[id]
                                   ELSE EmptyState)>>]_vars

C8_Witness ==
    \E id \in Ids, cb \in Cbs :
        /\ MapHas(followTargets, id)
        /\ calls = <<Call("target", id, cb, followTargets[id])>>
        /\ Len(targetSubscribers[id]) = 2
        /\ targetSubscribers[id][2] = cb

\* the calls a publish owes: every registered callback once, in
\* registration order, with the value
OwedCalls(kind, submap, id, val) ==
    IF MapHas(submap, id)
      THEN [i \in 1..Len(submap[id]) |-> Call(kind, id, submap[id][i], val)]
      ELSE <<>>

\* C9 (publish delivery and order): each set operation calls every callback
\* registered for that id and kind exactly once with the new value, in
\* registration order.
C9_PublishDelivery ==
    [][\A id \in Ids :
          /\ \A el \in Elems \cup {Null} : \A thr \in SUBSET Registered(targetSubscribers, id) :
                setTargetReference(id, el, thr)
                => calls' = OwedCalls("target", targetSubscribers, id, el)
          /\ \A a \in Points \cup {Undefined} : \A thr \in SUBSET Registered(altTargetSubscribers, id) :
                setAltTarget(id, a, thr)
                => calls' = OwedCalls("altTarget", altTargetSubscribers, id, a)
          /\ \A arg \in StateArgs : \A thr \in SUBSET Registered(followerStateSubscribers, id) :
                setFollowerState(id, arg, thr)
                => calls' = OwedCalls("state", followerStateSubscribers, id,
                                      ApplyStateArg(arg, getFollowerState(id)))]_vars

\* C10 (subscriber fault isolation): when a subscriber throws during a
\* publish, the set operation still stores the value, still calls every
\* other subscriber and does not end by the exception.
C10_FaultIsolation ==
    [][\A id \in Ids :
          /\ \A el \in Elems : \A thr \in SUBSET Registered(targetSubscribers, id) :
                setTargetReference(id, el, thr)
                => /\ followTargets'[id] = el
                   /\ ~raised'
                   /\ Len(calls') = Len(MapGetOr(targetSubscribers, id, <<>>))
          /\ \A a \in Points : \A thr \in SUBSET Registered(altTargetSubscribers, id) :
                setAltTarget(id, a, thr)
                => /\ altTargets'[id] = a
                   /\ ~raised'
                   /\ Len(calls') = Len(MapGetOr(altTargetSubscribers, id, <<>>))
          /\ \A arg \in StateArgs : \A thr \in SUBSET Registered(followerStateSubscribers, id) :
                setFollowerState(id, arg, thr)
                => /\ followerStates'[id] = ApplyStateArg(arg, getFollowerState(id))
                   /\ ~raised'
                   /\ Len(calls') = Len(MapGetOr(followerStateSubscribers, id, <<>>))]_vars
C12_VirtualPointPrecedence ==
    \A id \in DOMAIN units :
        LET u == units[id]
        IN /\ Truthy(u.rendered.altTarget)
              => PosSource(u) = VirtualElement(u.rendered.altTarget)
           /\ (~Truthy(u.rendered.altTarget) /\ Truthy(u.rendered.followEntry))
              => PosSource(u) = ElementSource(u.rendered.followEntry)

C12_Witness ==
    \E id \in DOMAIN units :
        LET u == units[id]
        IN /\ Truthy(u.rendered.altTarget)
           /\ Truthy(u.rendered.followEntry)
           /\ u.reference = u.rendered.followEntry
           /\ u.x = VirtualElement(u.rendered.altTarget)
           /\ PosSource(u) = u.x

\* C13 (follower visibility): the last render of a Follower Unit showed
\* nothing exactly when the unit knew neither an anchor nor a virtual point
\* at that render; a hidden unit has no floating element open and no spring,
\* and no step ends by an error.
C13_FollowerVisibility ==
    \A id \in DOMAIN units :
        LET u == units[id]
        IN /\ ~u.rendered.shouldBeVisible
              <=> (~Truthy(u.rendered.followEntry) /\ ~Truthy(u.rendered.altTarget))
           /\ ~u.rendered.shouldBeVisible
              => (u.status = "unmounted" /\ u.spring = NoSpring)
           /\ ~raised

\* a unit that was open, was then told its anchor is absent, rendered and is
\* hidden, with content and nothing left to happen to it
C13_Witness ==
    \E id \in DOMAIN units :
        LET u == units[id]
        IN /\ u.isInitiallyPositioned
           /\ ~u.rendered.shouldBeVisible
           /\ ~Dirty(u)
           /\ MapHas(followerContentRefs, id)
           /\ ~MapHas(followTargets, id)
           /\ ~MapHas(altTargets, id)
           /\ Subscribed(targetSubscribers, id, FollowerCb)
           /\ pendingTimers = <<>>

\* a step that renders the Follower Unit of id, which stays mounted
Renders(id) ==
    /\ id \in DOMAIN units
    /\ id \in DOMAIN units'
    /\ UnitRender(id) \/ ProviderRender \/ PositionResolved(id)

\* C14 (first placement does not animate, direct path): a render of a unit
\* has the transition enabled only if an earlier render of that unit showed
\* a computed rectangle; the initially-positioned flag is set only by a
\* render that saw the floating element open and is never reset while the
\* unit is mounted.
C14_FirstPlacementDirect ==
    [][\A id \in DOMAIN units \cap DOMAIN units' :
          LET u == units[id]
              v == units'[id]
          IN /\ u.isInitiallyPositioned => v.isInitiallyPositioned
             /\ (v.isInitiallyPositioned /\ ~u.isInitiallyPositioned)
                => Renders(id) /\ v.rendered.isOpen
             /\ (Renders(id) /\ v.rendered.shouldAnimate) => u.shownPlaced]_vars

\* a unit in direct mode that was hidden after its first placement and is
\* shown again with the transition enabled
C14_Witness ==
    \E id \in DOMAIN units :
        LET u == units[id]
        IN /\ u.rendered.shouldAnimate
           /\ ~u.rendered.useInertial
           /\ u.status = "initial"
           /\ u.x # PosSource(u)

\* C15 (first placement does not animate, inertial path): when the first
\* resolved target is handed to the spring of a unit that has not yet shown
\* a computed rectangle, the spring's current position equals that target.
C15_FirstPlacementSnaps ==
    [][\A id \in DOMAIN units \cap DOMAIN units' :
          LET u == units[id]
              v == units'[id]
          IN (/\ ~u.shownPlaced
              /\ v.spring # NoSpring
              /\ v.spring.target # Axes(Origin, Origin)
              /\ u.spring # v.spring)
             => v.spring.value = v.spring.target]_vars

\* the unit of id is shown, positioned by the virtual point p when one is
\* set and by the anchor el otherwise
Follows(id, el, p) ==
    /\ id \in DOMAIN units
    /\ units[id].rendered.shouldBeVisible
    /\ PosSource(units[id]) = IF Truthy(p) THEN VirtualElement(p) ELSE ElementSource(el)

\* C16 (follower eventually follows): if from some point on id keeps its
\* content, its anchor el and its virtual point p, then the unit of id is
\* eventually visible with p, or else el, as its positioning source.
C16_EventuallyFollows ==
    \A id \in PortalIds : \A el \in Elems : \A p \in Points \cup {Undefined} :
        []<>(\/ ~(/\ MapHas(followerContentRefs, id)
                  /\ CurrentTarget(id) = el
                  /\ CurrentAltTarget(id) = p)
             \/ Follows(id, el, p))

\* C17 (follower view consistency): the anchor and the virtual point a
\* mounted unit of id was last notified of are the ones stored for id.
C17_FollowerViewConsistent ==
    \A id \in DOMAIN units :
        /\ units[id].followEntry = CurrentTarget(id)
        /\ units[id].altTarget = CurrentAltTarget(id)

\* no render of the unit of id is scheduled or about to be caused: the
\* provider has no state update pending, the unit's own state is rendered,
\* its position is resolved and its transition status is final
Settled(id) ==
    /\ ~renderPending
    /\ ~Dirty(units[id])
    /\ units[id].x = PosSource(units[id])
    /\ units[id].status = "open"

\* C18 (rendering path selection): a visible unit of id, once its renders
\* have settled, renders through the spring path exactly when the inertial
\* flag stored for id is true.
C18_RenderingPath ==
    \A id \in DOMAIN units :
        (units[id].rendered.shouldBeVisible /\ Settled(id))
        => (units[id].spring # NoSpring <=> useInertial(id))

\* C19 (manual eviction): cleanupFollower(id) leaves no anchor, virtual
\* point, animation state, content or subscriber set of id, takes id out of
\* the active set, and leaves no grace timer of id pending, so no timer
\* scheduled before the call evicts what is registered for id after it.
C19_ManualEviction ==
    [][\A id \in Ids :
          cleanupFollower(id)
          => /\ RecordGone(id)'
             /\ id \notin activeFollowerIds'
             /\ ~MapHas(timeoutRefs', id)
             /\ ~HasPendingTimer(id)']_vars

\* C20 (usage error): a hook or Follower rendered without an enclosing
\* FollowerProvider throws the error "Wrap your app with
\* <FollowerProvider/>" and changes nothing in the registry.
C20_UsageError ==
    [][\A hook \in Hooks :
          RenderHook(hook, FALSE)
          => /\ raised'
             /\ hookError' = [hook |-> hook,
                              message |-> "Wrap your app with <FollowerProvider/>"]
             /\ UNCHANGED <<store, subs, timers, activeFollowerIds>>]_vars

\* a hook threw the usage error next to a registry that holds content
C20_Witness ==
    /\ raised
    /\ hookError.hook = "useFollowerTargetRef"
    /\ hookError.message = WrapError
    /\ followerContentRefs # EmptyMap

\* id has no fact, no subscriber set and no timer
Unknown(id) ==
    /\ ~MapHas(followerStates, id) /\ ~MapHas(followTargets, id)
    /\ ~MapHas(altTargets, id) /\ ~MapHas(followerContentRefs, id)
    /\ ~MapHas(targetSubscribers, id) /\ ~MapHas(altTargetSubscribers, id)
    /\ ~MapHas(followerStateSubscribers, id)
    /\ ~MapHas(timeoutRefs, id)

\* C21 (store read-after-write): after a set of a virtual point, a content
\* or an animation state the get of that kind and id returns the value set,
\* and absent after a set of absent; removing a fact that is not there
\* changes nothing in the store and raises no error.
C21_ReadAfterWrite ==
    [][\A id \in Ids :
          /\ \A a \in Points \cup {Undefined} : \A thr \in SUBSET Cbs :
                setAltTarget(id, a, thr)
                => /\ getAltTarget(id)' = a
                   /\ (a = Undefined /\ ~MapHas(altTargets, id))
                      => (UNCHANGED store /\ ~raised')
          /\ \A c \in Contents \cup {EmptyNode, Null} :
                setFollowerContent(id, c)
                => /\ getFollowerContent(id)' = IF c = Null THEN Undefined ELSE c
                   /\ (c = Null /\ ~MapHas(followerContentRefs, id))
                      => (UNCHANGED store /\ ~raised')
          /\ \A arg \in StateArgs : \A thr \in SUBSET Cbs :
                setFollowerState(id, arg, thr)
                => getFollowerState(id)' = ApplyStateArg(arg, getFollowerState(id))
          /\ (Unknown(id) /\ cleanupFollower(id))
             => (UNCHANGED store /\ ~raised')]_vars

\* what the caller supplied for field k of config object c, or the default
Supplied(c, k, default) ==
    IF ConfigField(c, k) \in 0..(NumSpringValues - 1) THEN ConfigField(c, k) ELSE default

\* C22 (animation defaults): an id without stored animation state reads as
\* the empty state with the inertial flag false; a mounted spring has for
\* each of stiffness, damping and mass the value of the config object it was
\* rendered with when that field is there, else 400, 40 and 1.
C22_AnimationDefaults ==
    /\ \A id \in Ids :
          ~MapHas(followerStates, id)
          => (getFollowerState(id) = EmptyState /\ ~useInertial(id))
    /\ \A id \in DOMAIN units :
          units[id].spring # NoSpring
          => LET c == units[id].rendered.springConfig
             IN units[id].springParams =
                  [stiffness |-> Supplied(c, "stiffness", 400),
                   damping |-> Supplied(c, "damping", 40),
                   mass |-> Supplied(c, "mass", 1)]

\* a spring mounted with a zero stiffness supplied and the other two fields
\* left out, and another id without animation state
C22_Witness ==
    /\ \E id \in DOMAIN units :
          /\ units[id].spring # NoSpring
          /\ units[id].springParams = [stiffness |-> 0, damping |-> 40, mass |-> 1]
    /\ \E id \in Ids : ~MapHas(followerStates, id)

GracePending(id) == ~MapHas(followTargets, id) /\ HasPendingTimer(id)

TimersOf(id) == SelectSeq(pendingTimers, LAMBDA t : t.id = id)

\* C26 (single pending timer): every id has at most one pending grace
\* timer, and it is the one recorded for id in the timeout map.
C26_SinglePendingTimer ==
    \A id \in Ids :
        /\ Len(TimersOf(id)) <= 1
        /\ Len(TimersOf(id)) = 1
           => (MapHas(timeoutRefs, id) /\ timeoutRefs[id] = TimersOf(id)[1].handle)

\* C27 (spring retargeting): while a <SpringFollower> is mounted, the target
\* of springX is the latest floatingX and the target of springY the latest
\* floatingY.
C27_SpringRetargeting ==
    \A id \in DOMAIN units :
        units[id].spring # NoSpring
        => /\ units[id].spring.target.x = units[id].x
           /\ units[id].spring.target.y = units[id].x

\* a spring retargeted in flight: it is at one resolved position and
\* targets another
C27_Witness ==
    \E id \in DOMAIN units :
        /\ units[id].spring # NoSpring
        /\ units[id].spring.value # Axes(Origin, Origin)
        /\ units[id].spring.value # units[id].spring.target

\* C28 (animation state update semantics): setFollowerState with an object
\* stores exactly that object, with an updater it stores the current state
\* (the empty state if none) with the updater's field replaced; the new
\* state is published to every follower-state subscriber of id; the
\* inertial-mode updater and the spring-config updater applied in either
\* order leave a state that holds both values.
C28_StateUpdateSemantics ==
    [][\A id \in Ids : \A arg \in StateArgs \cup InertialArgs :
          \A thr \in SUBSET Registered(followerStateSubscribers, id) :
             setFollowerState(id, arg, thr)
             => LET old == IF MapHas(followerStates, id) THEN followerStates[id]
                           ELSE EmptyState
                    new == followerStates'[id]
                IN /\ arg.type = "object"
                      => (/\ new.inertialMode = arg.inertialMode
                          /\ new.springConfig = arg.springConfig)
                   /\ arg.type = "inertial"
                      => (/\ new.inertialMode = arg.inertialMode
                          /\ new.springConfig = old.springConfig)
                   /\ arg.type = "spring"
                      => (/\ new.inertialMode = old.inertialMode
                          /\ new.springConfig = arg.springConfig)
                   /\ calls' = OwedCalls("state", followerStateSubscribers, id, new)
                   /\ \A b \in {"true", "false"} : \A c \in SpringConfigs :
                        LET ib == ApplyStateArg(InertialUpdater(b), new)
                            sc == ApplyStateArg(SpringUpdater(c), new)
                        IN /\ ApplyStateArg(SpringUpdater(c), ib)
                              = ApplyStateArg(InertialUpdater(b), sc)
                           /\ ApplyStateArg(SpringUpdater(c), ib)
                              = [inertialMode |-> b, springConfig |-> c]]_vars

\* the step is a set operation of the given kind on id
IsSet(kind, id) ==
    \E thr \in SUBSET Cbs :
        \/ kind = "target" /\ \E el \in Elems \cup {Null} : setTargetReference(id, el, thr)
        \/ kind = "altTarget" /\ \E a \in Points \cup {Undefined} : setAltTarget(id, a, thr)
        \/ kind = "state" /\ \E arg \in StateArgs : setFollowerState(id, arg, thr)

\* the step is the unsubscribe function of cb for kind and id
IsUnsubscribe(kind, id, cb) ==
    \/ kind = "target" /\ unsubscribeTarget(id, cb)
    \/ kind = "altTarget" /\ unsubscribeAltTarget(id, cb)
    \/ kind = "state" /\ unsubscribeFollowerState(id, cb)

\* the step called cb as a subscriber of kind and id
Called(kind, id, cb) ==
    \E i \in 1..Len(calls') :
        calls'[i].kind = kind /\ calls'[i].id = id /\ calls'[i].cb = cb

\* C29 (unsubscribe precision): a set operation calls exactly the callbacks
\* registered for its kind and id; the unsubscribe function of cb removes cb
\* from that registration and nothing else; a registered callback stays
\* registered until its unsubscribe function, an eviction of its id or a
\* cleanupFollower of its id.
C29_UnsubscribePrecision ==
    [][\A kind \in Kinds : \A id \in Ids : \A cb \in Cbs :
          LET reg == Registered(SubscribersOf(kind), id)
          IN /\ IsSet(kind, id) => (Called(kind, id, cb) <=> cb \in reg)
             /\ (cb \in reg /\ IsUnsubscribe(kind, id, cb))
                => /\ Registered(SubscribersOf(kind), id)' = reg \ {cb}
                   /\ \A k \in Kinds : \A i \in Ids :
                         (k # kind \/ i # id)
                         => Registered(SubscribersOf(k), i)'
                            = Registered(SubscribersOf(k), i)
             /\ (cb \in reg /\ cb \notin Registered(SubscribersOf(kind), id)')
                => \/ IsUnsubscribe(kind, id, cb)
                   \/ cleanupFollower(id)
                   \/ (TimerFire /\ Head(pendingTimers).id = id)]_vars

\* a registry operation on id: one of the setters, a subscribe, an
\* unsubscribe, cleanupFollower, or a grace timer of id coming due
OperationOn(id) ==
    \/ \E arg \in StateArgs : \E thr \in SUBSET Registered(followerStateSubscribers, id) :
          setFollowerState(id, arg, thr)
    \/ \E c \in Contents \cup {Null, EmptyNode} : setFollowerContent(id, c)
    \/ \E a \in Points \cup {Undefined} : \E thr \in SUBSET Registered(altTargetSubscribers, id) :
          setAltTarget(id, a, thr)
    \/ \E el \in Elems \cup {Null} : \E thr \in SUBSET Registered(targetSubscribers, id) :
          setTargetReference(id, el, thr)
    \/ \E cb \in Cbs :
          \/ subscribeToTarget(id, cb)
          \/ subscribeToAltTarget(id, cb)
          \/ subscribeFollowerState(id, cb)
          \/ unsubscribeTarget(id, cb)
          \/ unsubscribeAltTarget(id, cb)
          \/ unsubscribeFollowerState(id, cb)
    \/ cleanupFollower(id)
    \/ (pendingTimers # <<>> /\ Head(pendingTimers).id = id /\ TimerFire)

C31_ProviderTeardown ==
    [][/\ Unmount => (pendingTimers' = <<>> /\ timeoutRefs' = EmptyMap)
       /\ ~mounted => ~TimerFire]_vars

\* C32 (demo identifiers): the target list of the demo page always holds at
\* least one target and the ids of its targets are pairwise distinct.
C32_DemoIdentifiers ==
    app.mounted
    => /\ Len(app.targets) >= 1
       /\ \A i, j \in 1..Len(app.targets) :
             i # j => app.targets[i].id # app.targets[j].id

\* C33 (click virtual point expiry): a page click sets the click target to
\* the clicked point and leaves exactly one clear timer pending, its own; at
\* most one clear timer is ever pending; a clear timer that fires is the one
\* started by the most recent click, and the click target becomes undefined
\* only by that timer firing.
C33_ClickExpiry ==
    [][(app.mounted /\ app'.mounted)
       => /\ Len(app'.clearTimers) <= 1
          /\ \A point \in ClickPoints :
                handlePageClick(point)
                => /\ app'.clickTarget = point
                   /\ app'.clearTimers = <<[handle |-> app'.timeoutId]>>
                   /\ app'.timeoutId \notin PendingHandles(app.clearTimers)
          /\ ClearTimerFires => Head(app.clearTimers).handle = app.timeoutId
          /\ (app.clickTarget # Undefined /\ app'.clickTarget = Undefined)
             => ClearTimerFires]_vars

\* a click replaced the pending timer of an earlier click, and the timer of
\* the latest click has fired and cleared the click target
C33_Witness ==
    /\ app.mounted
    /\ app.cancelled # {}
    /\ app.timeoutId \notin app.cancelled
    /\ app.clearTimers = <<>>
    /\ app.clickTarget = Undefined
====
